---- MODULE Spec2Model ----
(***************************************************************************)
(* Model of the WireGuard link monitor (MonitorEnlaces.tsx): the           *)
(* normalisation of raw MikroTik peer records (processPeers), the          *)
(* aggregate counters (calculateStats), the refresh operation (fetchPeers) *)
(* and the search/status filter effect.                                    *)
(*                                                                         *)
(* A JavaScript string is a sequence of one-character strings; an absent   *)
(* property (undefined) is the value Undefined, which is no string.        *)
(***************************************************************************)
EXTENDS Integers, Sequences, FiniteSets, TLC

VARIABLES
    peers,          \* useState: the normalised list
    filteredPeers,  \* useState: the displayed list
    loading,        \* useState: the refresh spinner
    searchTerm,     \* useState: the search box
    filterStatus,   \* useState: the status buttons
    stats,          \* useState: the aggregate counters
    mounted,        \* the mount effects have run
    inflight,       \* fetchPeers calls awaiting supabase.functions.invoke
    effectPending,  \* a render changed a dependency of the filter effect
    outcome,        \* how the last completed fetchPeers ended
    lastLoaded,     \* history: records of the last response that was loaded
    rawIn,          \* argument of a direct processPeers call
    normOut         \* its result

vars == <<peers, filteredPeers, loading, searchTerm, filterStatus, stats,
          mounted, inflight, effectPending, outcome, lastLoaded, rawIn, normOut>>

-----------------------------------------------------------------------------
(* Bounds of the model *)

MaxNameLen == 4
MaxPeers == 2
MaxFilterLen == 3
MaxInflight == 2

-----------------------------------------------------------------------------
(* JavaScript strings *)

Chars(s) == [i \in 1..Len(s) |-> SubSeq(s, i, i)]

Undefined == <<"undefined">>

\* ToBoolean of an optional string: undefined and "" are falsy
Truthy(s) == s # Undefined /\ s # <<>>

\* a || b
OrElse(a, b) == IF Truthy(a) THEN a ELSE b

Digits == {"0", "1", "2", "3", "4", "5", "6", "7", "8", "9"}

DigitVal(c) ==
    CASE c = "0" -> 0 [] c = "1" -> 1 [] c = "2" -> 2 [] c = "3" -> 3
      [] c = "4" -> 4 [] c = "5" -> 5 [] c = "6" -> 6 [] c = "7" -> 7
      [] c = "8" -> 8 [] c = "9" -> 9

UpperLetters == Chars("ABCDEFGHIJKLMNOPQRSTUVWXYZ")
LowerLetters == Chars("abcdefghijklmnopqrstuvwxyz")

LowerChar(c) ==
    IF \E i \in 1..26 : UpperLetters[i] = c
    THEN LowerLetters[CHOOSE i \in 1..26 : UpperLetters[i] = c]
    ELSE c

\* String.prototype.toLowerCase
ToLowerCase(s) == [i \in 1..Len(s) |-> LowerChar(s[i])]

\* String.prototype.includes
Includes(s, sub) ==
    \E i \in 0..(Len(s) - Len(sub)) : SubSeq(s, i + 1, i + Len(sub)) = sub

WhiteSpace == {" ", "\t", "\n", "\r"}

\* String.prototype.trim
Trim(s) ==
    LET keep == {i \in 1..Len(s) : s[i] \notin WhiteSpace}
    IN  IF keep = {} THEN <<>>
        ELSE SubSeq(s, CHOOSE i \in keep : \A j \in keep : i <= j,
                       CHOOSE i \in keep : \A j \in keep : j <= i)

\* String.prototype.split with a one-character separator
RECURSIVE Split(_, _)
Split(s, sep) ==
    LET at == {i \in 1..Len(s) : s[i] = sep}
    IN  IF at = {} THEN <<s>>
        ELSE LET i == CHOOSE k \in at : \A j \in at : k <= j
             IN  <<SubSeq(s, 1, i - 1)>> \o Split(SubSeq(s, i + 1, Len(s)), sep)

\* end of the greedy run \d+ starting at i, or i - 1 when s[i] is no digit
RECURSIVE DigitsEnd(_, _)
DigitsEnd(s, i) ==
    IF i <= Len(s) /\ s[i] \in Digits THEN DigitsEnd(s, i + 1) ELSE i - 1

IsDot(s, i) == i <= Len(s) /\ s[i] = "."

\* end of a match of \d+\.\d+\.\d+\.\d+ anchored at i, or 0
IPv4EndAt(s, i) ==
    LET e1 == DigitsEnd(s, i)
        e2 == DigitsEnd(s, e1 + 2)
        e3 == DigitsEnd(s, e2 + 2)
        e4 == DigitsEnd(s, e3 + 2)
    IN  IF /\ e1 >= i
           /\ IsDot(s, e1 + 1) /\ e2 >= e1 + 2
           /\ IsDot(s, e2 + 1) /\ e3 >= e2 + 2
           /\ IsDot(s, e3 + 1) /\ e4 >= e3 + 2
        THEN e4 ELSE 0

NoMatch == <<"null">>

\* s.match(/(\d+\.\d+\.\d+\.\d+)/): group 1 of the leftmost match
RECURSIVE IPv4ScanFrom(_, _)
IPv4ScanFrom(s, i) ==
    IF i > Len(s) THEN NoMatch
    ELSE IF IPv4EndAt(s, i) > 0 THEN SubSeq(s, i, IPv4EndAt(s, i))
    ELSE IPv4ScanFrom(s, i + 1)

IPv4Match(s) == IPv4ScanFrom(s, 1)

\* s.match(/MC(\d+)/i): group 1 of the leftmost match
RECURSIVE McScanFrom(_, _)
McScanFrom(s, i) ==
    IF i + 2 > Len(s) THEN NoMatch
    ELSE IF /\ s[i] \in {"M", "m"}
            /\ s[i + 1] \in {"C", "c"}
            /\ DigitsEnd(s, i + 2) >= i + 2
         THEN SubSeq(s, i + 2, DigitsEnd(s, i + 2))
    ELSE McScanFrom(s, i + 1)

\* the pattern without its i flag
RECURSIVE McScanCaseSensitive(_, _)
McScanCaseSensitive(s, i) ==
    IF i + 2 > Len(s) THEN NoMatch
    ELSE IF /\ s[i] = "M"
            /\ s[i + 1] = "C"
            /\ DigitsEnd(s, i + 2) >= i + 2
         THEN SubSeq(s, i + 2, DigitsEnd(s, i + 2))
    ELSE McScanCaseSensitive(s, i + 1)

McMatchCaseSensitive(s) == McScanCaseSensitive(s, 1)

McMatch(s) == McScanFrom(s, 1)

\* parseInt of a run of decimal digits
RECURSIVE ParseInt(_)
ParseInt(ds) ==
    IF ds = <<>> THEN 0
    ELSE 10 * ParseInt(SubSeq(ds, 1, Len(ds) - 1)) + DigitVal(ds[Len(ds)])

-----------------------------------------------------------------------------
(* The classification tables *)

DDNS_RESERVED_MCS == {2, 7, 14, 20, 26, 46, 62, 66, 70}

STATIC_OVERRIDES ==
    { [mcNumber |-> 5,  lan |-> Chars("172.16.100.26")],
      [mcNumber |-> 8,  lan |-> Chars("190.2.221.40:10554")],
      [mcNumber |-> 19, lan |-> Chars("192.168.13.0/24")],
      [mcNumber |-> 21, lan |-> Chars("201.193.161.165")],
      [mcNumber |-> 22, lan |-> Chars("192.168.11.0/24")],
      [mcNumber |-> 31, lan |-> Chars("177.93.6.24")],
      [mcNumber |-> 38, lan |-> Chars("201.192.162.70:5554")],
      [mcNumber |-> 63, lan |-> Chars("177.93.31.175")] }

PoolCapacity == 200

-----------------------------------------------------------------------------
(* processPeers *)

SinNombre == Chars("Sin nombre")
NotAvailable == Chars("N/A")
Never == Chars("never")

\* const name = peer.name || peer.comment || "Sin nombre"
ResolveName(peer) == OrElse(OrElse(peer.name, peer.comment), SinNombre)

\* const wgIP = wgIPMatch ? wgIPMatch[1] : "N/A"
TunnelAddress(allowed) ==
    IF IPv4Match(allowed) # NoMatch THEN IPv4Match(allowed) ELSE NotAvailable

TunnelSubnet == Chars("100.100.100")
GatewaySubnet == Chars("172.16.100")

\* addr => !addr.includes('100.100.100') && !addr.includes('172.16.100')
NotInfrastructure(addr) ==
    /\ ~Includes(addr, TunnelSubnet)
    /\ ~Includes(addr, GatewaySubnet)

\* .map(addr => addr.trim())
TrimEach(list) == [i \in 1..Len(list) |-> Trim(list[i])]

\* allowed.split(',').filter(...).map(addr => addr.trim())
Lans(allowed) == TrimEach(SelectSeq(Split(allowed, ","), NotInfrastructure))

\* the test without its weeks marker
IsActiveIgnoringWeeks(lh) ==
    /\ Truthy(lh)
    /\ ~Includes(lh, <<"h">>)
    /\ ~Includes(lh, <<"d">>)

\* const isActive = lh && !lh.includes('h') && !lh.includes('d') && !lh.includes('w')
IsActive(lh) ==
    /\ Truthy(lh)
    /\ ~Includes(lh, <<"h">>)
    /\ ~Includes(lh, <<"d">>)
    /\ ~Includes(lh, <<"w">>)

\* let status = ...; if (mcMatch) { ... }
StatusOf(name, lh) ==
    LET base == IF IsActive(lh) THEN "active" ELSE "inactive"
        mcMatch == McMatch(name)
    IN  IF mcMatch = NoMatch THEN base
        ELSE LET mcNum == ParseInt(mcMatch)
                 afterReserved ==
                     IF mcNum \in DDNS_RESERVED_MCS THEN "reserved-ddns" ELSE base
             IN  IF \E s \in STATIC_OVERRIDES : s.mcNumber = mcNum
                 THEN "static-override" ELSE afterReserved

\* peer["allowed-address"].match(...) on an absent property is a TypeError
PeerThrows(peer) == peer.allowedAddress = Undefined

\* the body of the map callback, for a record on which it does not throw
ProcessPeer(peer) ==
    [ id |-> peer.id,
      name |-> ResolveName(peer),
      wgIP |-> TunnelAddress(peer.allowedAddress),
      lans |-> Lans(peer.allowedAddress),
      status |-> StatusOf(ResolveName(peer), peer.lastHandshake),
      lastHandshake |-> OrElse(peer.lastHandshake, Never),
      comment |-> OrElse(peer.comment, <<>>),
      endpointAddress |-> OrElse(peer.currentEndpointAddress, NotAvailable) ]

\* rawPeers.map(...): the array, or the exception of the first record that throws
ProcessPeers(rawPeers) ==
    IF \E i \in 1..Len(rawPeers) : PeerThrows(rawPeers[i])
    THEN [thrown |-> TRUE, value |-> <<>>]
    ELSE [thrown |-> FALSE,
          value |-> [i \in 1..Len(rawPeers) |-> ProcessPeer(rawPeers[i])]]

-----------------------------------------------------------------------------
(* calculateStats *)

CountStatus(peersList, status) ==
    Len(SelectSeq(peersList, LAMBDA p : p.status = status))

\* the counters with the reserved status misspelt
CalculateStatsMisnamed(peersList) ==
    [ total |-> Len(peersList),
      active |-> CountStatus(peersList, "active"),
      inactive |-> CountStatus(peersList, "inactive"),
      reserved |-> CountStatus(peersList, "reserved"),
      static |-> CountStatus(peersList, "static-override"),
      available |-> PoolCapacity - Len(peersList) ]

CalculateStats(peersList) ==
    [ total |-> Len(peersList),
      active |-> CountStatus(peersList, "active"),
      inactive |-> CountStatus(peersList, "inactive"),
      reserved |-> CountStatus(peersList, "reserved-ddns"),
      static |-> CountStatus(peersList, "static-override"),
      available |-> PoolCapacity - Len(peersList) ]

\* useState({ total: 0, ..., available: 0 })
InitialStats ==
    [ total |-> 0, active |-> 0, inactive |-> 0, reserved |-> 0,
      static |-> 0, available |-> 0 ]

-----------------------------------------------------------------------------
(* The filter effect *)

TextPredicate(peer, term) ==
    \/ Includes(ToLowerCase(peer.name), ToLowerCase(term))
    \/ Includes(peer.wgIP, term)
    \/ Includes(ToLowerCase(peer.comment), ToLowerCase(term))

StatusPredicate(peer, status) == peer.status = status

\* the status filter applied to peers instead of to the text-filtered list
FilterPeersFromPeers(list, term, status) ==
    LET byText ==
            IF term # <<>>
            THEN SelectSeq(list, LAMBDA p : TextPredicate(p, term))
            ELSE list
    IN  IF status # "all"
        THEN SelectSeq(list, LAMBDA p : StatusPredicate(p, status))
        ELSE byText

\* the value the effect passes to setFilteredPeers
FilterPeers(list, term, status) ==
    LET byText ==
            IF term # <<>>
            THEN SelectSeq(list, LAMBDA p : TextPredicate(p, term))
            ELSE list
    IN  IF status # "all"
        THEN SelectSeq(byText, LAMBDA p : StatusPredicate(p, status))
        ELSE byText

-----------------------------------------------------------------------------
(* Inputs *)

RawPeer(id, name, comment, allowed, handshake, endpoint) ==
    [ id |-> id, name |-> name, comment |-> comment, allowedAddress |-> allowed,
      lastHandshake |-> handshake, currentEndpointAddress |-> endpoint ]

ScenarioAllowed == Chars("10.0.0.5/32,192.168.1.0/24,172.16.100.5")

\* records the router can return
ReservedRecord ==
    RawPeer(Chars("*1"), Chars("MC7"), Undefined, ScenarioAllowed,
            Chars("2d3h"), Chars("1.2.3.4"))
StaticRecord ==
    RawPeer(Chars("*2"), Chars("MC8"), Chars("Bodega"),
            Chars("100.100.100.8/32, 192.168.13.0/24"), Undefined, Undefined)
ActiveRecord ==
    RawPeer(Chars("*3"), Chars("MC99"), Undefined, <<>>,
            Chars("15s"), Chars("5.6.7.8"))
InactiveRecord ==
    RawPeer(Chars("*4"), Undefined, Chars("Oficina"), Chars("::/0"),
            Chars("3w"), <<>>)
NoAddressRecord ==
    RawPeer(Chars("*5"), Chars("MC20"), Undefined, Undefined,
            Chars("1m"), Undefined)

RawSamples == {ReservedRecord, ActiveRecord, InactiveRecord, NoAddressRecord}

RECURSIVE SeqsUpTo(_, _)
SeqsUpTo(S, n) ==
    IF n = 0 THEN {<<>>}
    ELSE LET shorter == SeqsUpTo(S, n - 1)
         IN  shorter \cup {Append(q, x) : q \in shorter, x \in S}

RawLists == SeqsUpTo(RawSamples, MaxPeers)

\* what supabase.functions.invoke('mikrotik-fetch') resolves to
Responses ==
    {[error |-> TRUE, success |-> FALSE, data |-> <<>>],
     [error |-> FALSE, success |-> FALSE, data |-> <<>>]}
    \cup {[error |-> FALSE, success |-> TRUE, data |-> d] : d \in RawLists}

\* processPeers(data.data) of every response, computed once
Processed == [d \in RawLists |-> ProcessPeers(d)]

SearchTerms == {<<>>, Chars("mc"), Chars("n/a")}

StatusFilters == {"all", "active", "inactive", "reserved-ddns", "static-override"}

NameAlphabet == {"M", "c", "2", "0", "5", "x"}

NameInputs == SeqsUpTo(NameAlphabet, MaxNameLen)

HandshakeInputs ==
    { Undefined, <<>>, Chars("15s"), Chars("2m3s"), Chars("2d3h"),
      Chars("1h5m"), Chars("3w"), Chars("5d") }

AllowedInputs ==
    { Undefined, <<>>, ScenarioAllowed, Chars("::/0"),
      Chars("100.100.100.8/32, 192.168.13.0/24"),
      Chars(" 192.168.1.0/24 ,10.0.0.5/32"),
      Chars("10.1.2/24,172.16.100.1,") }

\* arguments of the direct processPeers calls
NormInputs ==
    { RawPeer(Chars("*1"), n, Undefined, ScenarioAllowed, h, Undefined) :
          n \in NameInputs, h \in HandshakeInputs }
    \cup
    { RawPeer(Chars("*1"), n, c, a, h, e) :
          n \in {Undefined, <<>>, Chars("MC7")},
          c \in {Undefined, <<>>, Chars("mc8 Bodega"), Chars("Oficina")},
          a \in AllowedInputs,
          h \in {Undefined, Chars("15s"), Chars("2d3h")},
          e \in {Undefined, <<>>, Chars("1.2.3.4")} }

NotCalled == [called |-> FALSE, thrown |-> FALSE, value |-> <<>>]

-----------------------------------------------------------------------------
(* The component *)

NotLoaded == [loaded |-> FALSE, data |-> <<>>]

Init ==
    /\ peers = <<>>
    /\ filteredPeers = <<>>
    /\ loading = FALSE
    /\ searchTerm = <<>>
    /\ filterStatus = "all"
    /\ stats = InitialStats
    /\ mounted = FALSE
    /\ inflight = 0
    /\ effectPending = FALSE
    /\ outcome = "none"
    /\ lastLoaded = NotLoaded
    /\ rawIn = <<>>
    /\ normOut = NotCalled

\* the part of fetchPeers before the await
FetchPeersCall ==
    /\ loading' = TRUE
    /\ inflight' = inflight + 1

\* the two mount effects: fetchPeers(), then the filter effect's first run
Mount ==
    /\ ~mounted
    /\ mounted' = TRUE
    /\ FetchPeersCall
    /\ filteredPeers' = FilterPeers(peers, searchTerm, filterStatus)
    /\ effectPending' = FALSE
    /\ UNCHANGED <<peers, searchTerm, filterStatus, stats, outcome, lastLoaded,
                   rawIn, normOut>>

\* the Actualizar button: fetchPeers itself has no in-flight guard
Refresh ==
    /\ mounted
    /\ inflight < MaxInflight
    /\ FetchPeersCall
    /\ UNCHANGED <<peers, filteredPeers, searchTerm, filterStatus, stats, mounted,
                   effectPending, outcome, lastLoaded, rawIn, normOut>>

\* the new records appended to the held list
NextPeersMerged(old, processed) == old \o processed

\* setPeers(processed)
NextPeers(old, processed) == processed

\* the dependency array without peers
PeersDependencyOmitted == FALSE

\* peers is in the dependency array of the filter effect
PeersDependency == TRUE

\* the part of fetchPeers after the await, for one response
FetchPeersResume(resp) ==
    /\ inflight > 0
    /\ inflight' = inflight - 1
    /\ loading' = FALSE
    /\ IF ~resp.error /\ resp.success /\ ~Processed[resp.data].thrown
       THEN LET processed == Processed[resp.data].value
            IN  /\ peers' = NextPeers(peers, processed)
                /\ filteredPeers' = processed
                /\ stats' = CalculateStats(processed)
                /\ effectPending' = (effectPending \/ PeersDependency)
                /\ outcome' = "loaded"
                /\ lastLoaded' = [loaded |-> TRUE, data |-> resp.data]
       ELSE /\ outcome' = "error"
            /\ UNCHANGED <<peers, filteredPeers, stats, effectPending, lastLoaded>>
    /\ UNCHANGED <<searchTerm, filterStatus, mounted, rawIn, normOut>>

\* useEffect(..., [searchTerm, filterStatus, peers])
FilterEffect ==
    /\ effectPending
    /\ filteredPeers' = FilterPeers(peers, searchTerm, filterStatus)
    /\ effectPending' = FALSE
    /\ UNCHANGED <<peers, loading, searchTerm, filterStatus, stats, mounted,
                   inflight, outcome, lastLoaded, rawIn, normOut>>

\* onChange of the search box
SetSearchTerm(term) ==
    /\ mounted
    /\ term # searchTerm
    /\ searchTerm' = term
    /\ effectPending' = TRUE
    /\ UNCHANGED <<peers, filteredPeers, loading, filterStatus, stats, mounted,
                   inflight, outcome, lastLoaded, rawIn, normOut>>

\* onClick of a status button
SetFilterStatus(status) ==
    /\ mounted
    /\ status # filterStatus
    /\ filterStatus' = status
    /\ effectPending' = TRUE
    /\ UNCHANGED <<peers, filteredPeers, loading, searchTerm, stats, mounted,
                   inflight, outcome, lastLoaded, rawIn, normOut>>

Next ==
    \/ Mount
    \/ Refresh
    \/ \E resp \in Responses : FetchPeersResume(resp)
    \/ FilterEffect
    \/ \E term \in SearchTerms : SetSearchTerm(term)
    \/ \E status \in StatusFilters : SetFilterStatus(status)

Spec == Init /\ [][Next]_vars

\* the responses built from three of the records
LiveResponses ==
    {r \in Responses :
        \A i \in 1..Len(r.data) :
            r.data[i] \in {ReservedRecord, InactiveRecord, NoAddressRecord}}

NextLive ==
    \/ Mount
    \/ Refresh
    \/ \E resp \in LiveResponses : FetchPeersResume(resp)
    \/ FilterEffect
    \/ \E term \in SearchTerms : SetSearchTerm(term)
    \/ \E status \in StatusFilters : SetFilterStatus(status)

\* React runs a scheduled effect after the render that scheduled it
SpecLive == Init /\ [][NextLive]_vars /\ WF_vars(FilterEffect)

-----------------------------------------------------------------------------
(* processPeers called on one record *)

InitNorm ==
    /\ peers = <<>>
    /\ filteredPeers = <<>>
    /\ loading = FALSE
    /\ searchTerm = <<>>
    /\ filterStatus = "all"
    /\ stats = InitialStats
    /\ mounted = FALSE
    /\ inflight = 0
    /\ effectPending = FALSE
    /\ outcome = "none"
    /\ lastLoaded = NotLoaded
    /\ rawIn \in {<<r>> : r \in NormInputs}
    /\ normOut = NotCalled

CallProcessPeers ==
    /\ ~normOut.called
    /\ normOut' = [called |-> TRUE, thrown |-> ProcessPeers(rawIn).thrown,
                   value |-> ProcessPeers(rawIn).value]
    /\ UNCHANGED <<peers, filteredPeers, loading, searchTerm, filterStatus, stats,
                   mounted, inflight, effectPending, outcome, lastLoaded, rawIn>>

NextNorm == CallProcessPeers

SpecNorm == InitNorm /\ [][NextNorm]_vars

-----------------------------------------------------------------------------
(* The filter effect run on one list *)

FilterTerms ==
    SearchTerms \cup {Chars("N/A"), Chars("MC9"), Chars("OFI"), Chars("bodega"),
                      Chars("100.100"), Chars("10.0"), Chars("a")}

FilterLists ==
    SeqsUpTo({ReservedRecord, StaticRecord, ActiveRecord, InactiveRecord},
             MaxFilterLen)

InitFilter ==
    /\ \E d \in FilterLists :
          /\ peers = ProcessPeers(d).value
          /\ filteredPeers = ProcessPeers(d).value
          /\ stats = CalculateStats(ProcessPeers(d).value)
          /\ lastLoaded = [loaded |-> TRUE, data |-> d]
    /\ loading = FALSE
    /\ searchTerm \in FilterTerms
    /\ filterStatus \in StatusFilters
    /\ mounted = TRUE
    /\ inflight = 0
    /\ effectPending = TRUE
    /\ outcome = "loaded"
    /\ rawIn = <<>>
    /\ normOut = NotCalled

NextFilter == FilterEffect

SpecFilter == InitFilter /\ [][NextFilter]_vars

-----------------------------------------------------------------------------
(* Properties of processPeers (SpecNorm) *)

Normalized == normOut.called /\ ~normOut.thrown
RawRecord == rawIn[1]
Peer == normOut.value[1]

\* positions where MC<digit> starts, in either case
McStarts(s) ==
    {i \in 1..(Len(s) - 2) :
        /\ s[i] \in {"M", "m"}
        /\ s[i + 1] \in {"C", "c"}
        /\ s[i + 2] \in Digits}

HasNumber(s) == McStarts(s) # {}

RECURSIVE DecimalValue(_)
DecimalValue(ds) ==
    IF ds = <<>> THEN 0
    ELSE DigitVal(Head(ds)) * 10 ^ (Len(ds) - 1) + DecimalValue(Tail(ds))

\* the number after the first MC of s
NumberOf(s) ==
    LET first == CHOOSE i \in McStarts(s) : \A j \in McStarts(s) : i <= j
        last == CHOOSE e \in (first + 2)..Len(s) :
                    /\ \A k \in (first + 2)..e : s[k] \in Digits
                    /\ e = Len(s) \/ s[e + 1] \notin Digits
    IN  DecimalValue(SubSeq(s, first + 2, last))

StaticNumbers == {s.mcNumber : s \in STATIC_OVERRIDES}

HandshakeRecent(lh) ==
    /\ lh # Undefined
    /\ lh # <<>>
    /\ \A i \in 1..Len(lh) : lh[i] \notin {"h", "d", "w"}

HandshakeStatus(lh) == IF HandshakeRecent(lh) THEN "active" ELSE "inactive"

HasOverride(s) ==
    HasNumber(s) /\ NumberOf(s) \in (StaticNumbers \cup DDNS_RESERVED_MCS)

\* C1: the status of a normalised record is static-override when the number
\* after the first MC of its name is a key of STATIC_OVERRIDES, else
\* reserved-ddns when that number is in DDNS_RESERVED_MCS, else (and when the
\* name has no MC<digits>) the status its handshake gives.
C1_StatusPrecedence ==
    Normalized =>
        Peer.status =
            IF ~HasNumber(Peer.name) THEN HandshakeStatus(RawRecord.lastHandshake)
            ELSE IF NumberOf(Peer.name) \in StaticNumbers THEN "static-override"
            ELSE IF NumberOf(Peer.name) \in DDNS_RESERVED_MCS THEN "reserved-ddns"
            ELSE HandshakeStatus(RawRecord.lastHandshake)

\* a mixed-case Mc22 with a fresh handshake ends static-override
C1_Witness ==
    /\ Normalized
    /\ Peer.name = <<"M", "c", "2", "2">>
    /\ RawRecord.lastHandshake = Chars("15s")
    /\ Peer.status = "static-override"

HasIPv4(entry) == IPv4Match(entry) # NoMatch

FirstWithIPv4(list) ==
    CHOOSE i \in 1..Len(list) :
        HasIPv4(list[i]) /\ \A j \in 1..(i - 1) : ~HasIPv4(list[j])

Without(list, i) ==
    [k \in 1..(Len(list) - 1) |-> IF k < i THEN list[k] ELSE list[k + 1]]

\* the entries left once the entry that supplied the tunnel address is removed
RemainingEntries(allowed) ==
    LET entries == Split(allowed, ",")
    IN  IF \E i \in 1..Len(entries) : HasIPv4(entries[i])
        THEN Without(entries, FirstWithIPv4(entries))
        ELSE entries

\* C2: lans is the sequence of the comma-separated entries of allowed-address
\* that remain after removing the tunnel-address entry, trimmed, without the
\* entries that contain 100.100.100 or 172.16.100.
C2_LansWithoutTunnelEntry ==
    Normalized =>
        Peer.lans =
            SelectSeq(TrimEach(RemainingEntries(RawRecord.allowedAddress)),
                      NotInfrastructure)

\* C3: processPeers returns a normalised peer for every record, whichever of
\* its fields are absent, and never throws.
C3_NormalizationTotal == normOut.called => ~normOut.thrown

\* C4: a record whose name yields no table override is active exactly when
\* last-handshake is present, non-empty and holds none of h, d, w, and is
\* inactive otherwise.
C4_HandshakeDefault ==
    (Normalized /\ ~HasOverride(Peer.name)) =>
        /\ Peer.status = "active" <=> HandshakeRecent(RawRecord.lastHandshake)
        /\ Peer.status = "inactive" <=> ~HandshakeRecent(RawRecord.lastHandshake)

\* a 15s handshake under a numbered name outside both tables is active
C4_Witness ==
    /\ Normalized
    /\ HasNumber(Peer.name)
    /\ ~HasOverride(Peer.name)
    /\ RawRecord.lastHandshake = Chars("15s")
    /\ Peer.status = "active"

-----------------------------------------------------------------------------
(* Properties of the filter effect (SpecFilter) *)

EffectRan == mounted /\ ~effectPending

Shown(peer) == \E j \in 1..Len(filteredPeers) : filteredPeers[j] = peer

MatchesIgnoringCase(text, term) == Includes(ToLowerCase(text), ToLowerCase(term))

\* C5: with a non-empty search term a peer passes the text predicate exactly
\* when the term is a case-insensitive substring of its name, of its tunnel
\* address (the sentinel N/A included) or of its comment.
C5_TextCaseInsensitive ==
    (EffectRan /\ searchTerm # <<>> /\ filterStatus = "all") =>
        \A i \in 1..Len(peers) :
            Shown(peers[i]) <=>
                \/ MatchesIgnoringCase(peers[i].name, searchTerm)
                \/ MatchesIgnoringCase(peers[i].wgIP, searchTerm)
                \/ MatchesIgnoringCase(peers[i].comment, searchTerm)

Passes(peer) ==
    /\ searchTerm = <<>> \/ TextPredicate(peer, searchTerm)
    /\ filterStatus = "all" \/ peer.status = filterStatus

KeptIndices == {i \in 1..Len(peers) : Passes(peers[i])}

KeptIndex(k) ==
    CHOOSE i \in KeptIndices : Cardinality({j \in KeptIndices : j <= i}) = k

\* C6: the filter result is the order-preserving subsequence of the list that
\* holds exactly the peers passing the text predicate (any peer when the term
\* is empty) and the status predicate (any peer when the filter is all); with
\* an empty term and the filter all it is the list itself.
C6_FilterIsSubsequence ==
    EffectRan =>
        /\ Len(filteredPeers) = Cardinality(KeptIndices)
        /\ \A k \in 1..Len(filteredPeers) : filteredPeers[k] = peers[KeptIndex(k)]
        /\ (searchTerm = <<>> /\ filterStatus = "all") => filteredPeers = peers

\* a term that two of three peers match and a status that one of them has
C6_Witness ==
    /\ EffectRan
    /\ searchTerm # <<>>
    /\ filterStatus # "all"
    /\ Len(peers) = 3
    /\ Len(filteredPeers) = 1
    /\ \E i \in 1..3 : TextPredicate(peers[i], searchTerm) /\ ~Shown(peers[i])
    /\ \E i \in 1..3 : ~TextPredicate(peers[i], searchTerm)

-----------------------------------------------------------------------------
(* Properties of the component (Spec, SpecLive) *)

Statuses == {"active", "inactive", "reserved-ddns", "static-override"}

C8_AvailableIsCapacityMinusTotal == stats.available = PoolCapacity - stats.total

NumberWithStatus(list, status) ==
    Cardinality({i \in 1..Len(list) : list[i].status = status})

AggregateOf(list) ==
    [ total |-> Len(list),
      active |-> NumberWithStatus(list, "active"),
      inactive |-> NumberWithStatus(list, "inactive"),
      reserved |-> NumberWithStatus(list, "reserved-ddns"),
      static |-> NumberWithStatus(list, "static-override"),
      available |-> PoolCapacity - Len(list) ]

HoldsLastLoaded ==
    /\ Len(peers) = Len(lastLoaded.data)
    /\ \A i \in 1..Len(peers) : peers[i] = ProcessPeer(lastLoaded.data[i])
    /\ lastLoaded.loaded => stats = AggregateOf(peers)

FailedRefreshStep == inflight' = inflight - 1 /\ outcome' = "error"

\* C9: the held list is the normalisation of the records of the last refresh
\* that succeeded and nothing else, its stats are the aggregate of that list,
\* and a refresh that fails leaves peers, filteredPeers and stats as they were.
C9_LastSuccessfulRefreshWins ==
    /\ []HoldsLastLoaded
    /\ [][FailedRefreshStep => UNCHANGED <<peers, filteredPeers, stats>>]_vars

\* a refresh failed after a list was loaded, with another refresh in flight
C9_Witness ==
    /\ lastLoaded.loaded
    /\ Len(peers) = 2
    /\ outcome = "error"
    /\ inflight >= 1

FilterOfPeers == SelectSeq(peers, Passes)

\* C10: once the filter effect has run filteredPeers is the filter of the
\* current peers under the current searchTerm and filterStatus, and after
\* every change of one of the three such a state is reached.
C10_FilterFollowsInputs ==
    /\ [](~effectPending => filteredPeers = FilterOfPeers)
    /\ [](effectPending => <>(filteredPeers = FilterOfPeers))

\* the effect has run after a load under a term and a status filter
C10_Witness ==
    /\ EffectRan
    /\ lastLoaded.loaded
    /\ searchTerm # <<>>
    /\ filterStatus # "all"
    /\ Len(peers) = 2
    /\ Len(filteredPeers) = 1

====
